---- MODULE Spec2Model ----
(***************************************************************************)
(* The ZamaFHEPackage contract (src/frontend/web/src/App.tsx, lines        *)
(* 662-825): encrypted package records, one-shot decryption requests to    *)
(* the decryption oracle, the two oracle callbacks and the encrypted       *)
(* per-version counter.  Every public function is one atomic transaction:  *)
(* a revert leaves the contract storage as it was.                         *)
(*                                                                         *)
(* Outside the contract: FHE.requestDecryption hands out request ids from  *)
(* a counter; FHE.checkSignatures accepts or rejects a (requestId,         *)
(* cleartexts, proof) triple, which the model takes as the input           *)
(* proofValid of a callback.  An euint32 is modelled by the plaintext it   *)
(* encrypts together with the "initialized" bit of its handle.             *)
(***************************************************************************)
EXTENDS Integers, Sequences, FiniteSets, TLC

\* ---------------------------------------------------------------- bounds
MaxPackages == 2
MaxRequests == 2

\* The web client (App.tsx, lines 16-546): browsers running App, the
\* records two of them submit while racing, and the records on the chain
\* when one browser pages through its table.
NumClients == 2
MaxSubmits == 3
MaxRecords == 7

\* ------------------------------------------------------------- constants
HashOffset == 1000

\* ---------------------------------------------------------------- inputs
\* Strings that occur as a version, in payloads and as arguments.
VersionStrings == {"1.0", "2.0"}

\* keccak256(abi.encodePacked(version)) as a uint256: injective, and far
\* from the small integers that serve as package ids.
VersionIndex(version) ==
    CASE version = "1.0" -> 1
      [] version = "2.0" -> 2
      [] OTHER -> 3

bytes32ToUint(b) == b

keccak256(version) == HashOffset + VersionIndex(version)

PackageIds == 0..MaxPackages
RequestIds == 0..MaxRequests
Keys == PackageIds \cup {bytes32ToUint(keccak256(v)) : v \in VersionStrings}

\* The ciphertext handles a submitter presents: every encryption yields
\* handles of its own, so the n-th submission comes with the n-th triple.
FreshHandles(n) == <<10 * n + 1, 10 * n + 2, 10 * n + 3>>

HandleTriples == {FreshHandles(n) : n \in 1..MaxPackages}

\* The block timestamps.
Timestamps == {100}

\* The cleartexts bytes of a callback: an ABI-encoded string[], an
\* ABI-encoded uint32, or bytes that are neither.
StringsPayload(strs) == [kind |-> "strings", strs |-> strs, num |-> 0]
UintPayload(n) == [kind |-> "uint32", strs |-> <<>>, num |-> n]
GarbagePayload == [kind |-> "garbage", strs |-> <<>>, num |-> 0]

Payloads ==
    { StringsPayload(<<"alpha", "1.0", "desc">>),
      StringsPayload(<<"beta", "2.0", "info">>),
      StringsPayload(<<"alpha", "1.0">>),
      UintPayload(1),
      GarbagePayload }

\* ----------------------------------------------------------------- state
VARIABLES
    packageCount,           \* uint256 public packageCount
    encryptedPackages,      \* mapping(uint256 => EncryptedPackageData)
    decryptedPackages,      \* mapping(uint256 => DecryptedPackageData)
    encryptedVersionCount,  \* mapping(string => euint32)
    versionList,            \* string[]
    requestToPackageId,     \* mapping(uint256 => uint256)
    counterRequest,         \* the oracle's next request id
    lastCall,               \* the last transaction: function and outcome, and
                            \* the arguments of one that succeeded
    emitted,                \* the events the last transaction emitted
    requestKind,            \* history: which function registered a request id
    settled,                \* history: request ids a callback has succeeded on
    reveals,                \* history: successful decryptPackage calls per version
    assigned                \* history: the ids submitEncryptedPackage assigned, in order

\* The web client: the key-value data behind contract.getData / setData and
\* the state of each browser running App.
VARIABLES
    chainKeys,              \* the bytes stored under "record_keys"
    chainRecord,            \* the bytes stored under "record_<id>", per id
    pc,                     \* per client: the await its async handler is at
    recordId,               \* per client: submitRecord's const recordId
    recordData,             \* per client: submitRecord's const recordData
    keys,                   \* per client: the local `keys` of the running handler
    records,                \* per client: the React state `records`
    searchTerm,             \* the React state `searchTerm` of the first client
    currentPage,            \* the React state `currentPage` of the first client
    issued,                 \* how many record ids submitRecord calls have drawn
    indexed                 \* history: ids whose two setData calls both completed

chain == <<chainKeys, chainRecord>>
web == <<chainKeys, chainRecord, pc, recordId, recordData, keys, records,
         searchTerm, currentPage, issued, indexed>>

storage == <<packageCount, encryptedPackages, decryptedPackages,
             encryptedVersionCount, versionList, requestToPackageId>>
history == <<requestKind, settled, reveals, assigned>>
vars == <<packageCount, encryptedPackages, decryptedPackages,
          encryptedVersionCount, versionList, requestToPackageId,
          counterRequest, lastCall, emitted, requestKind, settled, reveals,
          assigned>>

\* Variant: a fresh decrypted record that already counts as revealed.
EmptyDecrypted_Revealed == [name |-> "", version |-> "", description |-> "",
                            isRevealed |-> TRUE]

\* Solidity's zero values.
EmptyEncrypted == [id |-> 0, encryptedName |-> 0, encryptedVersion |-> 0,
                   encryptedDescription |-> 0, timestamp |-> 0]
EmptyDecrypted == [name |-> "", version |-> "", description |-> "",
                   isRevealed |-> FALSE]
UninitializedEuint32 == [initialized |-> FALSE, plain |-> 0]

\* Outcomes of a transaction.
Ok == "ok"
ErrAlreadyDecrypted == "Already decrypted"
ErrInvalidRequest == "Invalid request"
ErrVersionNotFound == "Version not found"
ErrInvalidProof == "checkSignatures reverted"
ErrDecode == "abi.decode reverted"
ErrIndex == "index out of bounds"

Call(op, id, version, reqId, result) ==
    [op |-> op, id |-> id, version |-> version, reqId |-> reqId, result |-> result]

\* The browsers and the record ids of the web client.
Clients == 1..NumClients
RecordIds == 1..MaxRecords

\* A bytes value read with getData: empty when the key was never set.
EmptyBytes == <<>>

\* The web client before any browser has done anything: no data on the
\* chain, every App freshly mounted (useState initial values).
WebInit ==
    /\ chainKeys = EmptyBytes
    /\ chainRecord = [id \in RecordIds |-> EmptyBytes]
    /\ pc = [c \in Clients |-> "idle"]
    /\ recordId = [c \in Clients |-> 0]
    /\ recordData = [c \in Clients |-> <<>>]
    /\ keys = [c \in Clients |-> <<>>]
    /\ records = [c \in Clients |-> <<>>]
    /\ searchTerm = <<>>
    /\ currentPage = 1
    /\ issued = 0
    /\ indexed = {}

Init ==
    /\ WebInit
    /\ packageCount = 0
    /\ encryptedPackages = [k \in Keys |-> EmptyEncrypted]
    /\ decryptedPackages = [k \in Keys |-> EmptyDecrypted]
    /\ encryptedVersionCount = [v \in VersionStrings |-> UninitializedEuint32]
    /\ versionList = <<>>
    /\ requestToPackageId = [r \in RequestIds |-> 0]
    /\ counterRequest = 0
    /\ lastCall = Call("constructor", 0, "", -1, Ok)
    /\ emitted = <<>>
    /\ requestKind = [r \in RequestIds |-> "none"]
    /\ settled = {}
    /\ reveals = [v \in VersionStrings |-> 0]
    /\ assigned = <<>>

\* A reverted transaction: the caller sees the function fail with `err`,
\* and nothing else changes.
Revert(op, err) ==
    /\ lastCall' = Call(op, -1, "", -1, err)
    /\ emitted' = <<>>
    /\ UNCHANGED <<storage, counterRequest, history>>

\* ------------------------------------------------------------ FHE library
\* Variant: every handle passes for an initialized one.
FHE_isInitialized_Always(e) == TRUE

\* FHE.isInitialized(e): the handle is not the zero handle.
FHE_isInitialized(e) == e.initialized

\* The plaintexts of the model stay below MaxPackages + |VersionStrings| + 1,
\* far from 2^32, so the wrap-around of euint32 arithmetic never applies.
FHE_asEuint32(n) == [initialized |-> TRUE, plain |-> n]

FHE_add(a, b) == [initialized |-> TRUE, plain |-> a.plain + b.plain]

\* Variant: the proof is never looked at.
checkSignatures_Skipped(requestId, cleartexts, proofValid) == TRUE

\* FHE.checkSignatures(requestId, cleartexts, proof): reverts unless the
\* proof attests the cleartexts for the request.
checkSignatures(requestId, cleartexts, proofValid) == proofValid

\* Variant: no payload decodes as a string[].
CanDecodeStrings_Never(cleartexts) == FALSE

\* abi.decode(cleartexts, (string[])) reverts on anything but an encoded string[].
CanDecodeStrings(cleartexts) == cleartexts.kind = "strings"

\* abi.decode(cleartexts, (uint32)) reads the first word: the value of an
\* encoded uint32, the head offset 0x20 of an encoded string[].
CanDecodeUint32(cleartexts) ==
    \/ cleartexts.kind = "uint32"
    \/ cleartexts.kind = "strings"

DecodeUint32(cleartexts) ==
    IF cleartexts.kind = "uint32" THEN cleartexts.num ELSE 32

\* --------------------------------------------------------------- helpers
\* Variant: the "Already decrypted" requirement is missing.
NotRevealed_Unchecked(dPkg) == TRUE

\* require(!decryptedPackages[packageId].isRevealed, "Already decrypted")
NotRevealed(dPkg) == ~dPkg.isRevealed

\* Variant: the indices of name and description are exchanged.
RevealedFrom_Exchanged(results) ==
    [name |-> results[3], version |-> results[2], description |-> results[1],
     isRevealed |-> TRUE]

\* dPkg.name = results[0]; dPkg.version = results[1];
\* dPkg.description = results[2]; dPkg.isRevealed = true
RevealedFrom(results) ==
    [name |-> results[1], version |-> results[2], description |-> results[3],
     isRevealed |-> TRUE]

\* Variant: the counter is set to an encrypted zero on every observation.
CountAfterBump_Reset(count) == FHE_add(FHE_asEuint32(0), FHE_asEuint32(1))

\* The version counter after one observation of `version`: created as an
\* encrypted zero when its handle is uninitialized, then incremented.
CountAfterBump(count) ==
    FHE_add(IF FHE_isInitialized(count) THEN count ELSE FHE_asEuint32(0),
            FHE_asEuint32(1))

\* Variant: the version is appended on every observation.
ListAfterBump_Always(list, count, version) == Append(list, version)

\* versionList after one observation of `version`.
ListAfterBump(list, count, version) ==
    IF FHE_isInitialized(count) THEN list ELSE Append(list, version)

\* Variant: only the last entry of the list is compared.
ScanVersionList_LastOnly(list, i, hash) ==
    IF Len(list) > 0 /\ bytes32ToUint(keccak256(list[Len(list)])) = hash
    THEN <<TRUE, list[Len(list)]>>
    ELSE <<FALSE, "">>

\* getVersionFromHash: the first entry of versionList whose hash is `hash`;
\* the result is <<found, version>>, found = FALSE standing for the revert.
RECURSIVE ScanVersionList(_, _, _)
ScanVersionList(list, i, hash) ==
    IF i > Len(list) THEN <<FALSE, "">>
    ELSE IF bytes32ToUint(keccak256(list[i])) = hash THEN <<TRUE, list[i]>>
    ELSE ScanVersionList(list, i + 1, hash)

getVersionFromHash(hash) == ScanVersionList(versionList, 1, hash)

\* Variant: the id is taken before the count is incremented.
NextId_Stale(count) == count

\* packageCount += 1; uint256 newId = packageCount
NextId(count) == count + 1

\* --------------------------------------------------------------- actions
submitEncryptedPackage(encryptedName, encryptedVersion, encryptedDescription, timestamp) ==
    /\ packageCount < MaxPackages
    /\ LET newId == NextId(packageCount) IN
       /\ packageCount' = packageCount + 1
       /\ encryptedPackages' = [encryptedPackages EXCEPT ![newId] =
              [id |-> newId, encryptedName |-> encryptedName,
               encryptedVersion |-> encryptedVersion,
               encryptedDescription |-> encryptedDescription,
               timestamp |-> timestamp]]
       /\ decryptedPackages' = [decryptedPackages EXCEPT ![newId] = EmptyDecrypted]
       /\ lastCall' = Call("submitEncryptedPackage", newId, "", -1, Ok)
       /\ emitted' = <<[event |-> "PackageSubmitted", id |-> newId,
                        timestamp |-> timestamp]>>
       /\ assigned' = Append(assigned, newId)
    /\ UNCHANGED <<encryptedVersionCount, versionList, requestToPackageId,
                   counterRequest, requestKind, settled, reveals>>

\* Variant: the handles are passed on in another order.
Ciphertexts_Reordered(pkg) ==
    <<pkg.encryptedVersion, pkg.encryptedName, pkg.encryptedDescription>>

\* bytes32[] ciphertexts: the three handles of the stored record.
Ciphertexts(pkg) ==
    <<pkg.encryptedName, pkg.encryptedVersion, pkg.encryptedDescription>>

requestPackageDecryption(packageId) ==
    LET pkg == encryptedPackages[packageId] IN
    IF ~NotRevealed(decryptedPackages[packageId])
    THEN Revert("requestPackageDecryption", ErrAlreadyDecrypted)
    ELSE /\ counterRequest < MaxRequests
         /\ LET reqId == counterRequest IN
            /\ requestToPackageId' = [requestToPackageId EXCEPT ![reqId] = packageId]
            /\ counterRequest' = counterRequest + 1
            /\ requestKind' = [requestKind EXCEPT ![reqId] = "package"]
            /\ lastCall' = Call("requestPackageDecryption", packageId, "", reqId, Ok)
            /\ emitted' = <<[event |-> "DecryptionRequested", id |-> packageId,
                             ciphertexts |-> Ciphertexts(pkg)]>>
         /\ UNCHANGED <<packageCount, encryptedPackages, decryptedPackages,
                        encryptedVersionCount, versionList, settled, reveals,
                        assigned>>

\* decryptPackage up to its first write: the require, checkSignatures,
\* abi.decode and results[i] steps in their order; Ok when none reverts.
decryptPackageChecks(requestId, cleartexts, proofValid) ==
    LET packageId == requestToPackageId[requestId]
        dPkg == decryptedPackages[packageId]
        results == cleartexts.strs
    IN
    IF packageId = 0 THEN ErrInvalidRequest
    ELSE IF ~NotRevealed(dPkg) THEN ErrAlreadyDecrypted
    ELSE IF ~checkSignatures(requestId, cleartexts, proofValid) THEN ErrInvalidProof
    ELSE IF ~CanDecodeStrings(cleartexts) THEN ErrDecode
    ELSE IF Len(results) < 3 THEN ErrIndex
    ELSE Ok

decryptPackage(requestId, cleartexts, proofValid) ==
    LET packageId == requestToPackageId[requestId]
        results == cleartexts.strs
        outcome == decryptPackageChecks(requestId, cleartexts, proofValid)
    IN
    IF outcome # Ok
    THEN Revert("decryptPackage", outcome)
    ELSE LET revealed == RevealedFrom(results)
             version == revealed.version
             count == encryptedVersionCount[version]
         IN
         /\ decryptedPackages' = [decryptedPackages EXCEPT ![packageId] = revealed]
         /\ encryptedVersionCount' =
                [encryptedVersionCount EXCEPT ![version] = CountAfterBump(count)]
         /\ versionList' = ListAfterBump(versionList, count, version)
         /\ lastCall' = Call("decryptPackage", requestId, version, -1, Ok)
         /\ emitted' = <<[event |-> "PackageDecrypted", id |-> packageId]>>
         /\ settled' = settled \cup {requestId}
         /\ reveals' = [reveals EXCEPT ![version] = @ + 1]
         /\ UNCHANGED <<packageCount, encryptedPackages, requestToPackageId,
                        counterRequest, requestKind, assigned>>

\* The part of the storage decryptPackage reads and writes.
RevealStore ==
    [decryptedPackages |-> decryptedPackages,
     encryptedVersionCount |-> encryptedVersionCount,
     versionList |-> versionList]

\* Variant: a callback is accepted only when no request with a smaller id
\* is still outstanding (in-order delivery).
decryptPackageFrom_InOrder(st, requestId, cleartexts, proofValid) ==
    LET packageId == requestToPackageId[requestId]
        dPkg == st.decryptedPackages[packageId]
        results == cleartexts.strs
        blocked == \E r \in RequestIds :
                      /\ r < requestId
                      /\ requestToPackageId[r] # 0
                      /\ NotRevealed(st.decryptedPackages[requestToPackageId[r]])
        outcome ==
            IF packageId = 0 THEN ErrInvalidRequest
            ELSE IF ~NotRevealed(dPkg) THEN ErrAlreadyDecrypted
            ELSE IF ~checkSignatures(requestId, cleartexts, proofValid)
                 THEN ErrInvalidProof
            ELSE IF ~CanDecodeStrings(cleartexts) THEN ErrDecode
            ELSE IF Len(results) < 3 THEN ErrIndex
            ELSE IF blocked THEN ErrInvalidRequest
            ELSE Ok
    IN
    IF outcome # Ok THEN [result |-> outcome, store |-> st]
    ELSE [result |-> Ok,
          store |-> [decryptedPackages |->
                         [st.decryptedPackages EXCEPT ![packageId] =
                              RevealedFrom(results)],
                     encryptedVersionCount |->
                         [st.encryptedVersionCount EXCEPT ![results[2]] =
                              CountAfterBump(@)],
                     versionList |->
                         ListAfterBump(st.versionList,
                                       st.encryptedVersionCount[results[2]],
                                       results[2])]]

\* decryptPackage as a function of the storage it runs on: the outcome and
\* the storage it leaves (the storage it found, when it reverts).
decryptPackageFrom(st, requestId, cleartexts, proofValid) ==
    LET packageId == requestToPackageId[requestId]
        dPkg == st.decryptedPackages[packageId]
        results == cleartexts.strs
        outcome ==
            IF packageId = 0 THEN ErrInvalidRequest
            ELSE IF ~NotRevealed(dPkg) THEN ErrAlreadyDecrypted
            ELSE IF ~checkSignatures(requestId, cleartexts, proofValid)
                 THEN ErrInvalidProof
            ELSE IF ~CanDecodeStrings(cleartexts) THEN ErrDecode
            ELSE IF Len(results) < 3 THEN ErrIndex
            ELSE Ok
    IN
    IF outcome # Ok THEN [result |-> outcome, store |-> st]
    ELSE LET revealed == RevealedFrom(results)
             version == revealed.version
             count == st.encryptedVersionCount[version]
         IN
         [result |-> Ok,
          store |-> [decryptedPackages |->
                         [st.decryptedPackages EXCEPT ![packageId] = revealed],
                     encryptedVersionCount |->
                         [st.encryptedVersionCount EXCEPT ![version] =
                              CountAfterBump(count)],
                     versionList |-> ListAfterBump(st.versionList, count, version)]]

getDecryptedPackage(packageId) == decryptedPackages[packageId]

getEncryptedVersionCount(version) == encryptedVersionCount[version]

requestVersionCountDecryption(version) ==
    LET count == encryptedVersionCount[version] IN
    IF ~FHE_isInitialized(count)
    THEN Revert("requestVersionCountDecryption", ErrVersionNotFound)
    ELSE /\ counterRequest < MaxRequests
         /\ LET reqId == counterRequest IN
            /\ requestToPackageId' = [requestToPackageId EXCEPT ![reqId] =
                                          bytes32ToUint(keccak256(version))]
            /\ counterRequest' = counterRequest + 1
            /\ requestKind' = [requestKind EXCEPT ![reqId] = "count"]
            /\ lastCall' = Call("requestVersionCountDecryption", 0, version, reqId, Ok)
            /\ emitted' = <<>>
         /\ UNCHANGED <<packageCount, encryptedPackages, decryptedPackages,
                        encryptedVersionCount, versionList, settled, reveals,
                        assigned>>

\* Variant: a successful counter callback resets the counter it reveals to
\* the decoded integer.
decryptVersionCount_Writing(requestId, cleartexts, proofValid) ==
    LET found == getVersionFromHash(requestToPackageId[requestId]) IN
    IF ~(found[1] /\ proofValid /\ cleartexts.kind = "uint32")
    THEN Revert("decryptVersionCount", ErrVersionNotFound)
    ELSE /\ encryptedVersionCount' =
                [encryptedVersionCount EXCEPT ![found[2]] =
                     FHE_asEuint32(cleartexts.num + 1)]
         /\ lastCall' = Call("decryptVersionCount", requestId, found[2], -1, Ok)
         /\ emitted' = <<>>
         /\ settled' = settled \cup {requestId}
         /\ UNCHANGED <<packageCount, encryptedPackages, decryptedPackages,
                        versionList, requestToPackageId, counterRequest,
                        requestKind, reveals, assigned>>

\* decryptVersionCount's steps in their order; Ok when none reverts.
decryptVersionCountChecks(requestId, cleartexts, proofValid) ==
    LET versionHash == requestToPackageId[requestId]
        found == getVersionFromHash(versionHash)
    IN
    IF ~found[1] THEN ErrVersionNotFound
    ELSE IF ~checkSignatures(requestId, cleartexts, proofValid) THEN ErrInvalidProof
    ELSE IF ~CanDecodeUint32(cleartexts) THEN ErrDecode
    ELSE Ok

decryptVersionCount(requestId, cleartexts, proofValid) ==
    LET versionHash == requestToPackageId[requestId]
        found == getVersionFromHash(versionHash)
        outcome == decryptVersionCountChecks(requestId, cleartexts, proofValid)
    IN
    IF outcome # Ok
    THEN Revert("decryptVersionCount", outcome)
    ELSE \* uint32 count = abi.decode(...): a local that is dropped
         /\ lastCall' = Call("decryptVersionCount", requestId, found[2], -1, Ok)
         /\ emitted' = <<>>
         /\ settled' = settled \cup {requestId}
         /\ UNCHANGED <<storage, counterRequest, requestKind, reveals, assigned>>

\* The ids a caller asks to decrypt: the reserved id 0, the submitted ids and
\* the next id to be assigned, which stands for the ids not submitted yet.
RequestablePackageIds ==
    0..(IF packageCount < MaxPackages THEN packageCount + 1 ELSE MaxPackages)

Submit ==
    /\ \E t \in Timestamps :
          LET h == FreshHandles(packageCount + 1) IN
          submitEncryptedPackage(h[1], h[2], h[3], t)
    /\ UNCHANGED web

RequestPackage ==
    /\ \E packageId \in RequestablePackageIds : requestPackageDecryption(packageId)
    /\ UNCHANGED web

RequestCount ==
    /\ \E version \in VersionStrings : requestVersionCountDecryption(version)
    /\ UNCHANGED web

\* Callback inputs that revert at the same step lead to the same state.  A
\* lookup failure reads neither the payload nor the proof and a proof failure
\* does not read the payload, so one payload (and one proof) is explored for
\* each of these outcomes; every other input is explored as it is.
Explored(outcome, cleartexts, proofValid) ==
    /\ outcome \in {ErrInvalidRequest, ErrAlreadyDecrypted, ErrVersionNotFound}
       => (cleartexts = GarbagePayload /\ ~proofValid)
    /\ outcome = ErrInvalidProof => cleartexts = GarbagePayload

CallbackPackage ==
    /\ \E requestId \in RequestIds, cleartexts \in Payloads, proofValid \in BOOLEAN :
          /\ Explored(decryptPackageChecks(requestId, cleartexts, proofValid),
                      cleartexts, proofValid)
          /\ decryptPackage(requestId, cleartexts, proofValid)
    /\ UNCHANGED web

CallbackCount ==
    /\ \E requestId \in RequestIds, cleartexts \in Payloads, proofValid \in BOOLEAN :
          /\ Explored(decryptVersionCountChecks(requestId, cleartexts, proofValid),
                      cleartexts, proofValid)
          /\ decryptVersionCount(requestId, cleartexts, proofValid)
    /\ UNCHANGED web

Next ==
    \/ Submit
    \/ RequestPackage
    \/ RequestCount
    \/ CallbackPackage
    \/ CallbackCount

Spec == Init /\ [][Next]_vars

\* ------------------------------------------------- request-tracker views
\* The record callback finds `requestId` outstanding: the tracker maps it to
\* a subject (0 reads as "no entry") that is not revealed yet.
PendingPackage(requestId) ==
    /\ requestToPackageId[requestId] # 0
    /\ ~decryptedPackages[requestToPackageId[requestId]].isRevealed

\* The counter callback finds `requestId` outstanding: the tracker maps it
\* to the hash of a known version.
PendingCount(requestId) == getVersionFromHash(requestToPackageId[requestId])[1]

\* What read(id) returns.
read(packageId) == getDecryptedPackage(packageId)

\* ================================================================ claims

\* C1: once a callback has succeeded on a request id, every later call of
\* the callback that request was registered for, with any payload and proof
\* and after any other operations, is rejected and changes no storage.  (The
\* claim names the rejection: "Already decrypted" or "Invalid request"; the
\* formula asks only that the call does not succeed.)
C1_ReplayRejected ==
    [][\A requestId \in settled, cleartexts \in Payloads, proofValid \in BOOLEAN :
          \/ /\ lastCall'.result # Ok
             /\ UNCHANGED storage
          \/ ~ \/ /\ requestKind[requestId] = "package"
                  /\ decryptPackage(requestId, cleartexts, proofValid)
               \/ /\ requestKind[requestId] = "count"
                  /\ decryptVersionCount(requestId, cleartexts, proofValid)]_vars

\* C2: for every record id, once isRevealed is true it stays true and the
\* name, version and description are never changed by any later operation
\* (so isRevealed goes from false to true at most once).
C2_RevealedImmutable ==
    [][\A packageId \in PackageIds :
          decryptedPackages[packageId].isRevealed
          => decryptedPackages'[packageId] = decryptedPackages[packageId]]_vars

\* C3: a callback with an invalid proof is rejected, whatever the payload:
\* on a request the callback finds outstanding it fails with the proof error,
\* it never succeeds, and the callback so rejected leaves the whole storage
\* (revealed records, counters, versionList, tracker) untouched.
C3_InvalidProofRejected ==
    /\ [](\A requestId \in RequestIds, cleartexts \in Payloads :
            /\ decryptPackageChecks(requestId, cleartexts, FALSE) # Ok
            /\ decryptVersionCountChecks(requestId, cleartexts, FALSE) # Ok
            /\ PendingPackage(requestId)
               => decryptPackageChecks(requestId, cleartexts, FALSE) = ErrInvalidProof
            /\ PendingCount(requestId)
               => decryptVersionCountChecks(requestId, cleartexts, FALSE)
                     = ErrInvalidProof)
    /\ [][/\ lastCall'.result = ErrInvalidProof
             => UNCHANGED <<storage, counterRequest>>
          /\ (lastCall'.op = "decryptPackage" /\ lastCall'.result = Ok)
             => \A requestId \in RequestIds, cleartexts \in Payloads :
                   ~decryptPackage(requestId, cleartexts, FALSE)
          /\ (lastCall'.op = "decryptVersionCount" /\ lastCall'.result = Ok)
             => \A requestId \in RequestIds, cleartexts \in Payloads :
                   ~decryptVersionCount(requestId, cleartexts, FALSE)]_vars

\* C3 witness: the record callback has just been rejected for its proof
\* while a version counter already exists.
C3_Witness ==
    /\ lastCall.op = "decryptPackage"
    /\ lastCall.result = ErrInvalidProof
    /\ Len(versionList) > 0

\* C4: requestPackageDecryption(id) succeeds only for an id that names a
\* submitted record (1 <= id <= packageCount) that is not revealed.
C4_NoDanglingRequest ==
    [][\A packageId \in PackageIds :
          (requestPackageDecryption(packageId) /\ lastCall'.result = Ok)
          => /\ 1 <= packageId
             /\ packageId <= packageCount
             /\ ~decryptedPackages[packageId].isRevealed]_vars

\* C5 (as claimed): a requestPackageDecryption for an unrevealed record that
\* already has an outstanding request fails with "Already decrypted" and
\* creates no second tracker entry.
C5_SecondRequestRejected ==
    [][\A packageId \in PackageIds :
          (/\ \E r \in RequestIds : /\ requestKind[r] = "package"
                                     /\ requestToPackageId[r] = packageId
           /\ ~decryptedPackages[packageId].isRevealed
           /\ requestPackageDecryption(packageId))
          => /\ lastCall'.result = ErrAlreadyDecrypted
             /\ UNCHANGED requestToPackageId]_vars

\* C5 (amended): requestPackageDecryption(id) fails with "Already decrypted"
\* exactly when the record is revealed, and then changes nothing; otherwise
\* it succeeds, also when a request for the record is already outstanding,
\* and maps a request id used by no earlier request to id.
C5_RequestRejectedIffRevealed ==
    [][lastCall'.op = "requestPackageDecryption" =>
       \A packageId \in PackageIds :
          requestPackageDecryption(packageId)
          => IF decryptedPackages[packageId].isRevealed
             THEN /\ lastCall'.result = ErrAlreadyDecrypted
                  /\ UNCHANGED <<storage, counterRequest>>
             ELSE /\ lastCall'.result = Ok
                  /\ requestKind[lastCall'.reqId] = "none"
                  /\ requestToPackageId' =
                         [requestToPackageId EXCEPT ![lastCall'.reqId] = packageId]
                  /\ UNCHANGED <<packageCount, encryptedPackages, decryptedPackages,
                                 encryptedVersionCount, versionList>>]_vars

\* C5 witness: a second request for the same unrevealed record has just
\* succeeded, so two tracker entries name it.
C5_Witness ==
    /\ lastCall.op = "requestPackageDecryption"
    /\ lastCall.result = Ok
    /\ ~decryptedPackages[lastCall.id].isRevealed
    /\ \E r \in RequestIds : /\ r # lastCall.reqId
                             /\ requestKind[r] = "package"
                             /\ requestToPackageId[r] = lastCall.id

\* C6: a request is settled only as the subject kind it was created for: a
\* request id registered by requestVersionCountDecryption never lets
\* decryptPackage write a revealed record or touch a counter, and a request
\* id registered by requestPackageDecryption is never accepted by
\* decryptVersionCount.
C6_KindsDistinguished ==
    [][\A requestId \in RequestIds, cleartexts \in Payloads, proofValid \in BOOLEAN :
          /\ (requestKind[requestId] = "count"
              /\ decryptPackage(requestId, cleartexts, proofValid))
             => UNCHANGED <<decryptedPackages, encryptedVersionCount, versionList>>
          /\ (requestKind[requestId] = "package"
              /\ decryptVersionCount(requestId, cleartexts, proofValid))
             => lastCall'.result # Ok]_vars

\* C7: for every version v, after N >= 1 successful record reveals whose
\* decrypted version is v the counter of v holds the plaintext N; before the
\* first one the counter is uninitialized.
C7_CounterEqualsReveals ==
    \A v \in VersionStrings :
        IF reveals[v] = 0
        THEN ~FHE_isInitialized(getEncryptedVersionCount(v))
        ELSE /\ FHE_isInitialized(getEncryptedVersionCount(v))
             /\ getEncryptedVersionCount(v).plain = reveals[v]

\* C7 witness: both submitted records have been revealed with the same
\* version, so N = 2 for it.
C7_Witness ==
    /\ packageCount = 2
    /\ read(1).isRevealed /\ read(1).version = "1.0"
    /\ read(2).isRevealed /\ read(2).version = "1.0"
    /\ reveals["1.0"] = 2
    /\ getEncryptedVersionCount("1.0").plain = 2

\* C8: a callback on a request id that no request has registered fails with
\* "Invalid request" (UnknownRequest) and changes no storage, for the record
\* callback and for the counter callback.
C8_UnknownRequestRejected ==
    [][\A requestId \in RequestIds, cleartexts \in Payloads, proofValid \in BOOLEAN :
          \/ /\ lastCall'.result = ErrInvalidRequest
             /\ UNCHANGED storage
          \/ requestKind[requestId] # "none"
          \/ ~ \/ decryptPackage(requestId, cleartexts, proofValid)
               \/ decryptVersionCount(requestId, cleartexts, proofValid)]_vars

\* C9: right after a successful callback for request id r the tracker no
\* longer holds r as outstanding for that callback.
C9_RequestConsumed ==
    /\ (lastCall.op = "decryptPackage" /\ lastCall.result = Ok)
       => ~PendingPackage(lastCall.id)
    /\ (lastCall.op = "decryptVersionCount" /\ lastCall.result = Ok)
       => ~PendingCount(lastCall.id)

\* C10: a successful decryptPackage(r, (name, version, description), proof)
\* had a valid proof, writes exactly these three strings and isRevealed = true
\* to the record the tracker maps r to, and leaves every other revealed
\* record and every encrypted record unchanged.
C10_CommitWritesPayload ==
    [][(lastCall'.op = "decryptPackage" /\ lastCall'.result = Ok) =>
       \A requestId \in RequestIds, cleartexts \in Payloads, proofValid \in BOOLEAN :
          decryptPackage(requestId, cleartexts, proofValid)
          => LET packageId == requestToPackageId[requestId] IN
             /\ proofValid
             /\ Len(cleartexts.strs) >= 3
             /\ read(packageId)' = [name |-> cleartexts.strs[1],
                                    version |-> cleartexts.strs[2],
                                    description |-> cleartexts.strs[3],
                                    isRevealed |-> TRUE]
             /\ \A k \in Keys \ {packageId} :
                    decryptedPackages'[k] = decryptedPackages[k]
             /\ UNCHANGED encryptedPackages]_vars

\* C10 witness: the second of two submitted records has just been revealed
\* through a request made for it, the first one still being unrevealed.
C10_Witness ==
    /\ lastCall.op = "decryptPackage"
    /\ lastCall.result = Ok
    /\ requestKind[lastCall.id] = "package"
    /\ requestToPackageId[lastCall.id] = 2
    /\ packageCount = 2
    /\ read(2).isRevealed
    /\ read(2).name = "beta"
    /\ ~read(1).isRevealed

\* C11: a successful decryptVersionCount (valid proof, decodable integer)
\* makes the decrypted integer observable: the step writes it to storage or
\* emits an event for it.
C11_CountObservable ==
    [][(lastCall'.op = "decryptVersionCount" /\ lastCall'.result = Ok)
       => \/ storage' # storage
          \/ emitted' # <<>>]_vars

\* C12: the k-th successful submitEncryptedPackage assigns id k (so id 0 is
\* never assigned and no id is assigned twice), packageCount is the number
\* of successful submits, and a submit stores the encrypted record built
\* from its arguments and an all-empty, unrevealed decrypted record under
\* the new id, touching no other record.
C12_SequentialIds ==
    /\ [](/\ Len(assigned) = packageCount
          /\ \A k \in 1..Len(assigned) : assigned[k] = k)
    /\ [][lastCall'.op = "submitEncryptedPackage" =>
          \A h \in HandleTriples, t \in Timestamps :
             submitEncryptedPackage(h[1], h[2], h[3], t)
             => LET newId == Len(assigned) + 1 IN
                /\ lastCall'.id = newId
                /\ lastCall'.result = Ok
                /\ encryptedPackages'[newId] =
                       [id |-> newId, encryptedName |-> h[1],
                        encryptedVersion |-> h[2],
                        encryptedDescription |-> h[3], timestamp |-> t]
                /\ decryptedPackages'[newId] =
                       [name |-> "", version |-> "", description |-> "",
                        isRevealed |-> FALSE]
                /\ \A k \in Keys \ {newId} :
                       /\ encryptedPackages'[k] = encryptedPackages[k]
                       /\ decryptedPackages'[k] = decryptedPackages[k]]_vars

\* C12 witness: the second submit has just assigned id 2, and it replaced a
\* record that had been revealed under id 2 before the id was assigned.
C12_Witness ==
    /\ lastCall.op = "submitEncryptedPackage"
    /\ lastCall.id = 2
    /\ assigned = <<1, 2>>
    /\ encryptedPackages[2].id = 2
    /\ \E r \in settled : requestToPackageId[r] = 2

\* C13: for every submitted id, as long as no callback has succeeded on a
\* request mapped to that id, getDecryptedPackage(id) returns empty name,
\* version and description and isRevealed = false, whatever requests and
\* rejected callbacks there have been.
C13_UnrevealedReadsEmpty ==
    \A packageId \in 1..packageCount :
        (\A r \in settled : requestToPackageId[r] # packageId)
        => /\ ~read(packageId).isRevealed
           /\ read(packageId).name = ""
           /\ read(packageId).version = ""
           /\ read(packageId).description = ""

\* C13 witness: record 1 is submitted and unrevealed after two requests for
\* it and a callback that was rejected for its payload.
C13_Witness ==
    /\ packageCount >= 1
    /\ counterRequest = 2
    /\ \A r \in 0..1 : requestToPackageId[r] = 1
    /\ settled = {}
    /\ lastCall.op = "decryptPackage"
    /\ lastCall.result = ErrDecode
    /\ ~read(1).isRevealed

\* C14: requestVersionCountDecryption(version) succeeds exactly when an
\* earlier successful decryptPackage has created the counter of version; it
\* then maps a fresh request id to the hash of version.  Otherwise it fails
\* with "Version not found", asks the oracle for nothing and leaves the
\* tracker and the rest of the storage unchanged.
C14_CountRequestIffInitialized ==
    [][lastCall'.op = "requestVersionCountDecryption" =>
       \A version \in VersionStrings :
          requestVersionCountDecryption(version)
          => IF reveals[version] > 0
             THEN /\ lastCall'.result = Ok
                  /\ requestKind[lastCall'.reqId] = "none"
                  /\ counterRequest' = counterRequest + 1
                  /\ requestToPackageId' =
                         [requestToPackageId EXCEPT ![lastCall'.reqId] =
                              bytes32ToUint(keccak256(version))]
             ELSE /\ lastCall'.result = ErrVersionNotFound
                  /\ UNCHANGED <<storage, counterRequest>>]_vars

\* C14 witness: a counter request for a version no record was revealed with
\* has just failed while the counter of another version exists.
C14_Witness ==
    /\ lastCall.op = "requestVersionCountDecryption"
    /\ lastCall.result = ErrVersionNotFound
    /\ reveals["1.0"] > 0
    /\ reveals["2.0"] = 0
    /\ \A r \in RequestIds : requestKind[r] # "count"

\* C15: the counter of a version is created (as an encrypted zero, then
\* incremented) at most once: once initialized it stays initialized and
\* every later observation of the version adds one to the value it holds;
\* versionList only grows at its end, holds no version twice, and holds a
\* version exactly when the counter of that version is initialized.
C15_CounterInitializedOnce ==
    /\ [](/\ \A i, j \in 1..Len(versionList) :
                versionList[i] = versionList[j] => i = j
          /\ \A v \in VersionStrings :
                FHE_isInitialized(getEncryptedVersionCount(v))
                <=> \E i \in 1..Len(versionList) : versionList[i] = v)
    /\ [][/\ \A v \in VersionStrings :
                LET count == encryptedVersionCount[v]
                    observed == /\ lastCall'.op = "decryptPackage"
                                /\ lastCall'.result = Ok
                                /\ lastCall'.version = v
                                /\ reveals'[v] = reveals[v] + 1
                IN
                /\ FHE_isInitialized(count)
                   => /\ FHE_isInitialized(encryptedVersionCount'[v])
                      /\ encryptedVersionCount'[v].plain =
                             IF observed THEN count.plain + 1 ELSE count.plain
                /\ (~FHE_isInitialized(count) /\ observed)
                   => encryptedVersionCount'[v] = FHE_asEuint32(1)
                /\ (~FHE_isInitialized(count) /\ ~observed)
                   => encryptedVersionCount'[v] = count
          /\ Len(versionList') >= Len(versionList)
          /\ \A i \in 1..Len(versionList) : versionList'[i] = versionList[i]]_vars

\* C15 witness: the counter of "1.0" was created by the reveal of one
\* submitted record and the reveal of the other one has just added one to
\* it; versionList holds "1.0" once.
C15_Witness ==
    /\ lastCall.op = "decryptPackage"
    /\ lastCall.result = Ok
    /\ lastCall.version = "1.0"
    /\ reveals["1.0"] = 2
    /\ getEncryptedVersionCount("1.0").plain = 2
    /\ versionList = <<"1.0">>
    /\ assigned = <<1, 2>>
    /\ \A packageId \in 1..2 : /\ read(packageId).isRevealed
                                /\ encryptedPackages[packageId].id = packageId
    /\ \A r \in 0..1 : requestToPackageId[r] = r + 1

\* C16: a callback rejected for its proof or its payload changes nothing, a
\* request a callback finds outstanding stays outstanding until a callback
\* reveals its subject, and on an outstanding request a callback with a
\* valid proof and a well-formed payload succeeds; so a rejected callback
\* can be retried with success unless the subject was revealed in between.
C16_RejectedCallbackRetryable ==
    /\ [](\A requestId \in RequestIds, cleartexts \in Payloads :
            /\ (/\ PendingPackage(requestId)
                /\ cleartexts.kind = "strings"
                /\ Len(cleartexts.strs) >= 3)
               => decryptPackageChecks(requestId, cleartexts, TRUE) = Ok
            /\ (PendingCount(requestId) /\ cleartexts.kind = "uint32")
               => decryptVersionCountChecks(requestId, cleartexts, TRUE) = Ok)
    /\ [][/\ lastCall'.result \in {ErrInvalidProof, ErrDecode, ErrIndex}
             => UNCHANGED <<storage, counterRequest>>
          /\ \A requestId \in RequestIds :
                /\ (PendingPackage(requestId) /\ ~PendingPackage(requestId)')
                   => /\ lastCall'.op = "decryptPackage"
                      /\ lastCall'.result = Ok
                      /\ decryptedPackages'[requestToPackageId[requestId]].isRevealed
                /\ PendingCount(requestId) => PendingCount(requestId)']_vars

\* C16 witness: the callback for the only request, made for submitted record
\* 1, has just been rejected for its payload; the request is still
\* outstanding and a well-formed callback on it passes every check.
C16_Witness ==
    /\ lastCall.op = "decryptPackage"
    /\ lastCall.result \in {ErrDecode, ErrIndex}
    /\ packageCount >= 1
    /\ counterRequest = 1
    /\ requestToPackageId[0] = 1
    /\ PendingPackage(0)
    /\ decryptPackageChecks(0, StringsPayload(<<"alpha", "1.0", "desc">>), TRUE) = Ok

\* C17: two outstanding requests for distinct records can be answered in
\* either order: each valid, well-formed callback is accepted whether it
\* comes first or second, and both orders leave the same revealed record
\* under every id and the same counter for every version (versionList, which
\* records the order of first observations, is not part of the comparison).
\* Answering one request leaves the others outstanding, so this extends to
\* every order of any number of requests.  The last two conjuncts tie
\* decryptPackageFrom to the transaction decryptPackage: the same outcome
\* for every input, and the storage a successful call leaves.
C17_OrderIndependent ==
    /\ [](/\ \A r1, r2 \in RequestIds :
                (/\ PendingPackage(r1) /\ PendingPackage(r2)
                 /\ requestToPackageId[r1] # requestToPackageId[r2])
                => \A c1, c2 \in Payloads :
                      (/\ c1.kind = "strings" /\ Len(c1.strs) >= 3
                       /\ c2.kind = "strings" /\ Len(c2.strs) >= 3)
                      => LET a1 == decryptPackageFrom(RevealStore, r1, c1, TRUE)
                             a2 == decryptPackageFrom(a1.store, r2, c2, TRUE)
                             b2 == decryptPackageFrom(RevealStore, r2, c2, TRUE)
                             b1 == decryptPackageFrom(b2.store, r1, c1, TRUE)
                         IN
                         /\ a1.result = Ok /\ a2.result = Ok
                         /\ b2.result = Ok /\ b1.result = Ok
                         /\ a2.store.decryptedPackages = b1.store.decryptedPackages
                         /\ a2.store.encryptedVersionCount =
                                b1.store.encryptedVersionCount
          /\ \A requestId \in RequestIds, cleartexts \in Payloads,
                proofValid \in BOOLEAN :
                LET a == decryptPackageFrom(RevealStore, requestId, cleartexts,
                                            proofValid)
                IN /\ a.result = decryptPackageChecks(requestId, cleartexts,
                                                      proofValid)
                   /\ a.result # Ok => a.store = RevealStore)
    /\ [][(lastCall'.op = "decryptPackage" /\ lastCall'.result = Ok) =>
          \A requestId \in RequestIds, cleartexts \in Payloads, proofValid \in BOOLEAN :
             decryptPackage(requestId, cleartexts, proofValid)
             => LET a == decryptPackageFrom(RevealStore, requestId, cleartexts,
                                            proofValid)
                IN /\ a.result = Ok
                   /\ RevealStore' = a.store]_vars

\* C17 witness: requests r0 for record 1 and r1 for record 2 were made in
\* this order and answered in the opposite one, the callback for r0 being
\* the last transaction; both records are revealed, each counter is 1.
C17_Witness ==
    /\ assigned = <<1, 2>>
    /\ requestKind = [r \in RequestIds |-> IF r <= 1 THEN "package" ELSE "none"]
    /\ requestToPackageId[0] = 1
    /\ requestToPackageId[1] = 2
    /\ settled = {0, 1}
    /\ lastCall.op = "decryptPackage"
    /\ lastCall.result = Ok
    /\ lastCall.id = 0
    /\ read(1) = RevealedFrom(<<"alpha", "1.0", "desc">>)
    /\ read(2) = RevealedFrom(<<"beta", "2.0", "info">>)
    /\ versionList = <<"2.0", "1.0">>
    /\ \A v \in VersionStrings : getEncryptedVersionCount(v).plain = 1

\* C18: the checks of both callbacks run in the order unknown request,
\* already settled, invalid proof, malformed payload, and the first one that
\* fails names the error: with an invalid proof, a request id no request has
\* registered gives "Invalid request" and a request whose subject is already
\* revealed gives "Already decrypted"; with a valid proof, a malformed
\* payload on an outstanding request gives a decode error, not the proof
\* error; and no rejection changes the storage.
C18_ChecksOrdered ==
    [][lastCall'.op \in {"decryptPackage", "decryptVersionCount"} =>
       /\ lastCall'.result # Ok => UNCHANGED <<storage, counterRequest>>
       /\ \A requestId \in RequestIds, cleartexts \in Payloads :
             /\ decryptPackage(requestId, cleartexts, FALSE)
                => /\ requestKind[requestId] = "none"
                      => lastCall'.result = ErrInvalidRequest
                   /\ (/\ requestToPackageId[requestId] # 0
                       /\ decryptedPackages[requestToPackageId[requestId]].isRevealed)
                      => lastCall'.result = ErrAlreadyDecrypted
             /\ decryptVersionCount(requestId, cleartexts, FALSE)
                => (requestKind[requestId] = "none"
                    => lastCall'.result = ErrInvalidRequest)
             /\ (/\ decryptPackage(requestId, cleartexts, TRUE)
                 /\ PendingPackage(requestId)
                 /\ ~(cleartexts.kind = "strings" /\ Len(cleartexts.strs) >= 3))
                => lastCall'.result \in {ErrDecode, ErrIndex}
             /\ (/\ decryptVersionCount(requestId, cleartexts, TRUE)
                 /\ PendingCount(requestId)
                 /\ cleartexts.kind = "garbage")
                => lastCall'.result = ErrDecode]_vars

\* C19: in every state and for every version v the plaintext of the counter
\* of v is the number of keys whose decrypted record is revealed with
\* version v (0 standing for a counter that was never created).
C19_CounterEqualsRevealedRecords ==
    \A v \in VersionStrings :
        getEncryptedVersionCount(v).plain =
            Cardinality({k \in Keys : /\ read(k).isRevealed
                                      /\ read(k).version = v})

\* C20: when two request ids map to the same record and a callback has
\* succeeded on one of them, a callback with a valid proof on the other one
\* fails with "Already decrypted" and leaves the revealed records, the
\* counters and the rest of the storage unchanged.
C20_OneCallbackPerRecord ==
    [][lastCall'.op = "decryptPackage" =>
       \A r1 \in settled, r2 \in RequestIds, cleartexts \in Payloads :
          (/\ r1 # r2
           /\ requestKind[r1] = "package"
           /\ requestKind[r2] = "package"
           /\ requestToPackageId[r1] = requestToPackageId[r2]
           /\ decryptPackage(r2, cleartexts, TRUE))
          => /\ lastCall'.result = ErrAlreadyDecrypted
             /\ UNCHANGED storage]_vars

\* C21: a decryptVersionCount call, accepted or rejected, leaves every
\* decrypted record, every encrypted record, every version counter,
\* versionList and packageCount as they were.
C21_CountCallbackPure ==
    [][lastCall'.op = "decryptVersionCount" =>
          UNCHANGED <<packageCount, encryptedPackages, decryptedPackages,
                      encryptedVersionCount, versionList>>]_vars

\* C21 witness: the counter callback has just succeeded on a request for
\* "1.0", with record 1 revealed and the counter of "1.0" at 1.
C21_Witness ==
    /\ lastCall.op = "decryptVersionCount"
    /\ lastCall.result = Ok
    /\ lastCall.version = "1.0"
    /\ requestKind[lastCall.id] = "count"
    /\ packageCount >= 1
    /\ read(1).isRevealed
    /\ getEncryptedVersionCount("1.0") = FHE_asEuint32(1)
    /\ versionList = <<"1.0">>

\* C22: a registered request no callback has succeeded on keeps its tracker
\* entry through every operation, and a callback of its own kind with a
\* valid proof and a well-formed payload is accepted on it, unless a callback
\* on another request has settled the same subject.
C22_PendingNeverCancelled ==
    /\ [](\A r \in RequestIds :
            (/\ requestKind[r] # "none"
             /\ r \notin settled
             /\ \A other \in settled :
                    requestToPackageId[other] # requestToPackageId[r])
            => IF requestKind[r] = "package"
               THEN decryptPackageChecks(
                        r, StringsPayload(<<"alpha", "1.0", "desc">>), TRUE) = Ok
               ELSE decryptVersionCountChecks(r, UintPayload(1), TRUE) = Ok)
    /\ [][\A r \in RequestIds :
             requestKind[r] # "none"
             => /\ requestKind'[r] = requestKind[r]
                /\ requestToPackageId'[r] = requestToPackageId[r]]_vars

\* C23: every successful submitEncryptedPackage emits exactly one
\* PackageSubmitted event carrying the new id, every successful request (for
\* a record or for a counter) exactly one DecryptionRequested event, every
\* successful callback (record or counter) exactly one PackageDecrypted
\* event, and a rejected call emits nothing.
C23_EventsFollowOperations ==
    [][/\ lastCall'.result # Ok => emitted' = <<>>
       /\ (lastCall'.op = "submitEncryptedPackage" /\ lastCall'.result = Ok)
          => /\ Len(emitted') = 1
             /\ emitted'[1].event = "PackageSubmitted"
             /\ emitted'[1].id = lastCall'.id
       /\ (/\ lastCall'.op \in {"requestPackageDecryption",
                                "requestVersionCountDecryption"}
           /\ lastCall'.result = Ok)
          => /\ Len(emitted') = 1
             /\ emitted'[1].event = "DecryptionRequested"
       /\ (/\ lastCall'.op \in {"decryptPackage", "decryptVersionCount"}
           /\ lastCall'.result = Ok)
          => /\ Len(emitted') = 1
             /\ emitted'[1].event = "PackageDecrypted"]_vars

\* C24: the encrypted record stored under a submitted id (its three handles,
\* its id and its timestamp) is changed by no later operation, and a
\* successful requestPackageDecryption(id) for a submitted id passes to the
\* oracle exactly the three handles that were submitted for id, in the
\* order name, version, description.
C24_EncryptedRecordImmutable ==
    [][/\ \A packageId \in 1..packageCount :
             encryptedPackages'[packageId] = encryptedPackages[packageId]
       /\ (/\ lastCall'.op = "requestPackageDecryption"
           /\ lastCall'.result = Ok
           /\ lastCall'.id \in 1..packageCount)
          => /\ emitted'[1].id = lastCall'.id
             /\ emitted'[1].ciphertexts = FreshHandles(lastCall'.id)]_vars

\* C24 witness: with two records submitted, each with handles of its own, a
\* request for record 2 has just passed the handles of record 2 on.
C24_Witness ==
    /\ packageCount = 2
    /\ lastCall.op = "requestPackageDecryption"
    /\ lastCall.result = Ok
    /\ lastCall.id = 2
    /\ emitted[1].ciphertexts = <<21, 22, 23>>
    /\ Ciphertexts(encryptedPackages[1]) = <<11, 12, 13>>

\* C25: getVersionFromHash returns v for the hash of every version v in
\* versionList, and reverts with "Version not found" for every other key:
\* the hash of a version not in the list, the 0 read for an unregistered
\* request id, and a package id.
C25_HashRoundTrip ==
    /\ \A i \in 1..Len(versionList) :
           getVersionFromHash(bytes32ToUint(keccak256(versionList[i])))
               = <<TRUE, versionList[i]>>
    /\ \A key \in Keys :
           (\A i \in 1..Len(versionList) :
                bytes32ToUint(keccak256(versionList[i])) # key)
           => /\ ~getVersionFromHash(key)[1]
              /\ \A r \in RequestIds, cleartexts \in Payloads :
                     requestToPackageId[r] = key
                     => decryptVersionCountChecks(r, cleartexts, TRUE)
                            = ErrVersionNotFound

\* C25 witness: versionList holds both versions, "2.0" first; a counter
\* request for "1.0", the second entry, is registered and one request id is
\* not registered.
C25_Witness ==
    /\ versionList = <<"2.0", "1.0">>
    /\ \E r \in RequestIds :
           /\ requestKind[r] = "count"
           /\ getVersionFromHash(requestToPackageId[r]) = <<TRUE, "1.0">>
    /\ \E r \in RequestIds : requestKind[r] = "none"

\* ============================================================ web client
\* App.tsx, lines 16-546.  An async handler runs up to its next await in one
\* step; `pc` names the await a client's handler is suspended at.  The
\* contract behind getData / setData keeps the bytes last written under a
\* key.

\* ethers.toUtf8Bytes(JSON.stringify(value)): a non-empty byte string that
\* carries the value.
Bytes(value) == <<"utf8-json", value>>

\* JSON.parse(ethers.toUtf8String(bytes))
Parsed(bytes) == bytes[2]

\* let keys = []; if (keysBytes.length > 0) keys = JSON.parse(...)
keysFrom(keysBytes) == IF Len(keysBytes) > 0 THEN Parsed(keysBytes) ELSE <<>>

\* The option values of the category select the users choose from, as
\* character sequences, and the account of the connected wallet.
Financial == <<"F", "i", "n", "a", "n", "c", "i", "a", "l">>
Medical == <<"M", "e", "d", "i", "c", "a", "l">>
Categories == {Financial, Medical}
Account == <<"0", "x", "A", "b">>

\* recordData of submitRecord; Date.now() grows from one submission to the
\* next, so the timestamp follows the order in which the ids were drawn.
recordDataOf(id, category) ==
    [timestamp |-> id, owner |-> Account, category |-> category]

\* list.push({id: key, ...recordData}) for every key with stored bytes.
RECURSIVE listFromKeys(_, _)
listFromKeys(ks, i) ==
    IF i > Len(ks) THEN <<>>
    ELSE LET recordBytes == chainRecord[ks[i]]
             rest == listFromKeys(ks, i + 1)
         IN IF Len(recordBytes) > 0
            THEN <<[id |-> ks[i],
                    timestamp |-> Parsed(recordBytes).timestamp,
                    owner |-> Parsed(recordBytes).owner,
                    category |-> Parsed(recordBytes).category]>> \o rest
            ELSE rest

\* list.sort((a, b) => b.timestamp - a.timestamp): a stable sort, newest
\* first.
RECURSIVE sortByTimestamp(_)
sortByTimestamp(list) ==
    IF Len(list) <= 1 THEN list
    ELSE LET sorted == sortByTimestamp(Tail(list))
             x == Head(list)
             before == SelectSeq(sorted, LAMBDA y : y.timestamp > x.timestamp)
             after == SelectSeq(sorted, LAMBDA y : y.timestamp <= x.timestamp)
         IN before \o <<x>> \o after

\* The state of the table of the first client, which the handlers of
\* submitRecord and loadRecords leave alone.
table == <<searchTerm, currentPage>>

\* submitRecord (the wallet being connected, the form filled with
\* `category`) up to `await contract.setData("record_<id>", ...)`: the id
\* and the record data are fixed.  Every call draws an id of its own.
submitRecord(c, category) ==
    /\ pc[c] = "idle"
    /\ issued < MaxSubmits
    /\ issued' = issued + 1
    /\ recordId' = [recordId EXCEPT ![c] = issued + 1]
    /\ recordData' = [recordData EXCEPT ![c] = recordDataOf(issued + 1, category)]
    /\ pc' = [pc EXCEPT ![c] = "setRecord"]
    /\ UNCHANGED <<chain, keys, records, table, indexed>>

\* The transaction setData("record_<id>", ...) is mined and the handler goes
\* on to `await contract.getData("record_keys")`, or the transaction is
\* rejected and the handler ends in its catch block.
setRecordData(c, mined) ==
    /\ pc[c] = "setRecord"
    /\ IF mined
       THEN /\ chainRecord' = [chainRecord EXCEPT ![recordId[c]] =
                                   Bytes(recordData[c])]
            /\ pc' = [pc EXCEPT ![c] = "getKeys"]
       ELSE /\ chainRecord' = chainRecord
            /\ pc' = [pc EXCEPT ![c] = "idle"]
    /\ UNCHANGED <<chainKeys, recordId, recordData, keys, records, table,
                   issued, indexed>>

\* getData("record_keys") returns; keys is parsed, recordId is pushed, and
\* the handler is at `await contract.setData("record_keys", ...)`.
getRecordKeys(c) ==
    /\ pc[c] = "getKeys"
    /\ keys' = [keys EXCEPT ![c] = Append(keysFrom(chainKeys), recordId[c])]
    /\ pc' = [pc EXCEPT ![c] = "setKeys"]
    /\ UNCHANGED <<chain, recordId, recordData, records, table, issued, indexed>>

\* The transaction setData("record_keys", ...) is mined and the handler
\* calls loadRecords, or it is rejected and the handler ends.
setRecordKeys(c, mined) ==
    /\ pc[c] = "setKeys"
    /\ IF mined
       THEN /\ chainKeys' = Bytes(keys[c])
            /\ indexed' = indexed \cup {recordId[c]}
            /\ pc' = [pc EXCEPT ![c] = "loadKeys"]
       ELSE /\ UNCHANGED <<chainKeys, indexed>>
            /\ pc' = [pc EXCEPT ![c] = "idle"]
    /\ UNCHANGED <<chainRecord, recordId, recordData, keys, records, table,
                   issued>>

\* The Refresh button (or the mount effect) calls loadRecords, which runs up
\* to `await contract.getData("record_keys")`.
refresh(c) ==
    /\ pc[c] = "idle"
    /\ pc' = [pc EXCEPT ![c] = "loadKeys"]
    /\ UNCHANGED <<chain, recordId, recordData, keys, records, table, issued,
                   indexed>>

\* loadRecords: getData("record_keys") returns and the keys are parsed.
loadKeys(c) ==
    /\ pc[c] = "loadKeys"
    /\ keys' = [keys EXCEPT ![c] = keysFrom(chainKeys)]
    /\ pc' = [pc EXCEPT ![c] = "loadList"]
    /\ UNCHANGED <<chain, recordId, recordData, records, table, issued, indexed>>

\* loadRecords: the record of every key is read (the bytes under a record
\* key are written once, so the reads are taken together), the list is
\* sorted and setRecords(list) is called.
loadList(c) ==
    /\ pc[c] = "loadList"
    /\ records' = [records EXCEPT ![c] = sortByTimestamp(listFromKeys(keys[c], 1))]
    /\ pc' = [pc EXCEPT ![c] = "idle"]
    /\ UNCHANGED <<chain, recordId, recordData, keys, table, issued, indexed>>

\* Two browsers submitting and refreshing; the contract of lines 662-825
\* is not called by them.
SubmitRecord ==
    /\ \E c \in Clients, category \in Categories : submitRecord(c, category)
    /\ UNCHANGED vars

SetRecordData ==
    /\ \E c \in Clients, mined \in BOOLEAN : setRecordData(c, mined)
    /\ UNCHANGED vars

GetRecordKeys ==
    /\ \E c \in Clients : getRecordKeys(c)
    /\ UNCHANGED vars

SetRecordKeys ==
    /\ \E c \in Clients, mined \in BOOLEAN : setRecordKeys(c, mined)
    /\ UNCHANGED vars

Refresh ==
    /\ \E c \in Clients : refresh(c)
    /\ UNCHANGED vars

LoadKeys ==
    /\ \E c \in Clients : loadKeys(c)
    /\ UNCHANGED vars

LoadList ==
    /\ \E c \in Clients : loadList(c)
    /\ UNCHANGED vars

NextClient ==
    \/ SubmitRecord
    \/ SetRecordData
    \/ GetRecordKeys
    \/ SetRecordKeys
    \/ Refresh
    \/ LoadKeys
    \/ LoadList

SpecClient == Init /\ [][NextClient]_web

\* C26: every record id whose setData("record_<id>") and setData("record_keys")
\* both completed is in the list stored under "record_keys" in every later
\* state, also when two submitRecord calls interleave.
C26_NoLostIndexEntry ==
    \A id \in indexed :
        \E i \in 1..Len(keysFrom(chainKeys)) : keysFrom(chainKeys)[i] = id

\* -------------------------------------------------------- the record table
\* The table of the first client: search box, pagination, record list.
TableClient == 1

\* const [itemsPerPage] = useState(5)
itemsPerPage == 5

\* What a user types into the search box.
SearchTerms ==
    { <<>>, <<"f", "i", "n">>, <<"M", "E", "D">>, <<"a", "b">> }

\* String.prototype.toLowerCase, on the letters that occur.
LowerChar(ch) ==
    CASE ch = "A" -> "a"
      [] ch = "D" -> "d"
      [] ch = "E" -> "e"
      [] ch = "F" -> "f"
      [] ch = "M" -> "m"
      [] OTHER -> ch

toLowerCase(str) == [i \in 1..Len(str) |-> LowerChar(str[i])]

\* String.prototype.includes: needle occurs in hay as a substring.
includes(hay, needle) ==
    \E i \in 0..(Len(hay) - Len(needle)) :
        SubSeq(hay, i + 1, i + Len(needle)) = needle

\* Array.prototype.slice(start, end) for start >= 0 and end >= 0.
slice(list, start, end) ==
    SubSeq(list, start + 1, IF end < Len(list) THEN end ELSE Len(list))

filteredRecords ==
    SelectSeq(records[TableClient],
              LAMBDA record :
                  \/ includes(toLowerCase(record.category), toLowerCase(searchTerm))
                  \/ includes(toLowerCase(record.owner), toLowerCase(searchTerm)))

indexOfLastItem == currentPage * itemsPerPage
indexOfFirstItem == indexOfLastItem - itemsPerPage
currentRecords == slice(filteredRecords, indexOfFirstItem, indexOfLastItem)

\* Math.ceil(filteredRecords.length / itemsPerPage)
totalPages == (Len(filteredRecords) + itemsPerPage - 1) \div itemsPerPage

\* The "No encrypted records found" placeholder is rendered.
noRecordsShown == Len(currentRecords) = 0

\* The pagination buttons are rendered.
paginationShown == Len(filteredRecords) > itemsPerPage

paginate(pageNumber) ==
    /\ currentPage' = pageNumber
    /\ UNCHANGED <<chain, pc, recordId, recordData, keys, records, searchTerm,
                   issued, indexed>>

\* onChange of the search box: setSearchTerm(e.target.value).
setSearchTerm(term) ==
    /\ searchTerm' = term
    /\ UNCHANGED <<chain, pc, recordId, recordData, keys, records, currentPage,
                   issued, indexed>>

\* A submitRecord of some other browser that runs from its first setData to
\* its last without another submission in between.
otherSubmit(category) ==
    /\ issued < MaxRecords
    /\ issued' = issued + 1
    /\ chainRecord' = [chainRecord EXCEPT ![issued + 1] =
                           Bytes(recordDataOf(issued + 1, category))]
    /\ chainKeys' = Bytes(Append(keysFrom(chainKeys), issued + 1))
    /\ indexed' = indexed \cup {issued + 1}
    /\ UNCHANGED <<pc, recordId, recordData, keys, records, table>>

OtherSubmit ==
    /\ \E category \in Categories : otherSubmit(category)
    /\ UNCHANGED vars

RefreshTable ==
    /\ refresh(TableClient)
    /\ UNCHANGED vars

LoadTableKeys ==
    /\ loadKeys(TableClient)
    /\ UNCHANGED vars

LoadTableList ==
    /\ loadList(TableClient)
    /\ UNCHANGED vars

SetSearchTerm ==
    /\ \E term \in SearchTerms : setSearchTerm(term)
    /\ UNCHANGED vars

\* The Previous button: rendered with the pagination, disabled on page 1.
ClickPrevious ==
    /\ paginationShown
    /\ currentPage # 1
    /\ paginate(currentPage - 1)
    /\ UNCHANGED vars

\* The Next button: rendered with the pagination, disabled on the last page.
ClickNext ==
    /\ paginationShown
    /\ currentPage # totalPages
    /\ paginate(currentPage + 1)
    /\ UNCHANGED vars

NextTable ==
    \/ OtherSubmit
    \/ RefreshTable
    \/ LoadTableKeys
    \/ LoadTableList
    \/ SetSearchTerm
    \/ ClickPrevious
    \/ ClickNext

SpecTable == Init /\ [][NextTable]_web

\* C27: after any clicks on Previous and Next, changes of the search term
\* and reloads, currentPage is between 1 and max(1, totalPages); so the
\* displayed slice is non-empty whenever some record matches, and the
\* placeholder is shown only when none does.
C27_PageWithinBounds ==
    /\ currentPage >= 1
    /\ currentPage <= (IF totalPages > 1 THEN totalPages ELSE 1)
    /\ Len(filteredRecords) > 0 => Len(currentRecords) > 0
    /\ noRecordsShown => Len(filteredRecords) = 0

====
